---------------------------- MODULE Spec2Model ----------------------------
(***************************************************************************)
(* Model of nigbms' gradient-estimation layer (modules/wrapper.py), of the *)
(* training loops that drive it (train/minimize_testfunctions.py,          *)
(* train/poisson1d.py) and of the task format conversion                   *)
(* (modules/tasks.py).                                                     *)
(*                                                                         *)
(* Tensors are sequences of rows of exact rationals <<n, d>> (d > 0, in    *)
(* lowest terms), so that the mean over the Nv axis and the division by Nv *)
(* are computed, not abstracted.                                           *)
(***************************************************************************)
EXTENDS Integers, Sequences, FiniteSets, TLC

VARIABLES
    pc,        \* position of the training step
    script,    \* which training loop runs: "minimize" or "poisson1d"
    cfg,       \* the wrapper configuration: grad_type, Nv, v_scale
    iter,      \* number of training steps started
    ctx,       \* the estimator context of the custom-gradient node (or NoCtx)
    out,       \* the value the node's forward returned
    bw,        \* the outcome of the last backward call through the node
    nBackward, \* backward calls that have read the current context
    ptask,     \* the sparse (PETSc) task under conversion
    ttask,     \* the dense (PyTorch) task under conversion
    rtask,     \* the task a round trip ended with, or the right operand of ==
    tpc,       \* position of the conversion run
    eq,        \* the outcome of the last task comparison
    jv         \* the last call of jvp: its arguments and outcome

vars == <<pc, script, cfg, iter, ctx, out, bw, nBackward, ptask, ttask, rtask, tpc, eq, jv>>
gradVars == <<pc, script, cfg, iter, ctx, out, bw, nBackward>>
taskVars == <<ptask, ttask, rtask, tpc, eq>>
jvpVars == <<jv>>

----------------------------------------------------------------------------
(* Bounds of the model *)

MaxNv == 2
MaxBatch == 2
MaxDim == 2
MaxOut == 2
MaxSeed == 2
MaxIter == 1
MaxN == 2

----------------------------------------------------------------------------
(* Exact rational arithmetic *)

Abs(n) == IF n < 0 THEN -n ELSE n

RECURSIVE GCD(_, _)
GCD(a, b) == IF b = 0 THEN a ELSE GCD(b, a % b)

Rat(n, d) == LET g == GCD(Abs(n), d) IN <<n \div g, d \div g>>

RInt(n) == <<n, 1>>

RAdd(a, b) == Rat(a[1] * b[2] + b[1] * a[2], a[2] * b[2])

RNeg(a) == <<-a[1], a[2]>>

RSub(a, b) == RAdd(a, RNeg(b))

RMul(a, b) == Rat(a[1] * b[1], a[2] * b[2])

RDivInt(a, k) == Rat(a[1], a[2] * k)

RECURSIVE RSumSeq(_)
RSumSeq(s) == IF s = <<>> THEN RInt(0) ELSE RAdd(Head(s), RSumSeq(Tail(s)))

----------------------------------------------------------------------------
(* Tensors: a 2-d tensor is a sequence of rows, a row a sequence of rationals *)

Shape(t) == <<Len(t), Len(t[1])>>

Flatten(t) ==
    LET cols == Len(t[1])
    IN [i \in 1..(Len(t) * cols) |-> t[((i - 1) \div cols) + 1][((i - 1) % cols) + 1]]

zeros_like(t) == [r \in 1..Len(t) |-> [c \in 1..Len(t[1]) |-> RInt(0)]]

ones(rows, cols) == [r \in 1..rows |-> [c \in 1..cols |-> RInt(1)]]

TMul(a, b) == [r \in 1..Len(a) |-> [c \in 1..Len(a[1]) |-> RMul(a[r][c], b[r][c])]]

TSub(a, b) == [r \in 1..Len(a) |-> [c \in 1..Len(a[1]) |-> RSub(a[r][c], b[r][c])]]

TAdd(a, b) == [r \in 1..Len(a) |-> [c \in 1..Len(a[1]) |-> RAdd(a[r][c], b[r][c])]]

TScale(a, s) == [r \in 1..Len(a) |-> [c \in 1..Len(a[1]) |-> RMul(a[r][c], s)]]

TDivInt(a, k) == [r \in 1..Len(a) |-> [c \in 1..Len(a[1]) |-> RDivInt(a[r][c], k)]]

\* torch.sum(t, dim=1, keepdim=True): one column holding each row's sum
SumDim1(t) == [r \in 1..Len(t) |-> <<RSumSeq(t[r])>>]

\* [rows, 1] * [rows, cols]: the single column is broadcast over the columns
BroadcastMul(col, t) == [r \in 1..Len(t) |-> [c \in 1..Len(t[1]) |-> RMul(col[r][1], t[r][c])]]

\* t.reshape(n, bs, dim): row-major regrouping of the flattened tensor
Reshape3(t, n, bs, dim) ==
    LET flat == Flatten(t)
    IN [k \in 1..n |-> [b \in 1..bs |-> [j \in 1..dim |->
            flat[((k - 1) * bs + (b - 1)) * dim + j]]]]

\* slip: the sum over the Nv axis divided by the size of the batch axis
MeanDim0_batch_count(t3) ==
    LET n == Len(t3)
    IN [b \in 1..Len(t3[1]) |-> [j \in 1..Len(t3[1][1]) |->
            RDivInt(RSumSeq([k \in 1..n |-> t3[k][b][j]]), Len(t3[1]))]]

\* t3.mean(dim=0) of a 3-d tensor
MeanDim0(t3) ==
    LET n == Len(t3)
    IN [b \in 1..Len(t3[1]) |-> [j \in 1..Len(t3[1][1]) |->
            RDivInt(RSumSeq([k \in 1..n |-> t3[k][b][j]]), n)]]

\* the input tensors the model draws: entries in -2..2, varying with the seed
SampleTensor(seed, rows, cols) ==
    [r \in 1..rows |-> [c \in 1..cols |->
        RInt((((seed + 1) * (r * r + c) + seed * r * c) % 5) - 2)]]

----------------------------------------------------------------------------
(* Autograd values and torch.autograd.grad *)

GradTypes == {"f_true", "f_fwd", "f_hat_true", "cv_fwd"}

\* one configured value outside the four supported ones
UnknownGradType == "f_hat_fwd"

VScales == {RInt(1), RInt(3)}

NoCtx == [alive |-> FALSE]

NoBw == [status |-> "none"]

NoEq == "none"

NoJvp == [status |-> "none"]

Returned(g, gy, v, c) ==
    [status |-> "returned", err |-> "none", grad |-> g, grad_y |-> gy, v |-> v, ctx |-> c]

Raised(e, gy, v, c) ==
    [status |-> "raised", err |-> e, grad_y |-> gy, v |-> v, ctx |-> c]

\* A solver output: its value, whether it hangs off a differentiable graph
\* ("ok") or not ("none"), and, per replicated row r, the Jacobian
\* jac[r][c][j] = d val[r][c] / d x[b(r)][j] of that row with respect to the
\* sample b(r) = ((r - 1) % batch) + 1 it replicates.
SolverOutput(seed, graph, rows, o, dim) ==
    [val |-> SampleTensor(seed, rows, o),
     graph |-> graph,
     jac |-> [r \in 1..rows |-> SampleTensor(seed + r, o, dim)]]

\* tensor.detach(): the same value, cut off the graph
detach(y) == [val |-> y.val, graph |-> "none"]

\* torch.autograd.grad(y, x, grad_outputs=grad_y, retain_graph=True)[0]:
\* the vector-Jacobian product, summed over the replicas of each sample; it
\* raises when y is not part of a differentiable graph.
autograd_grad(y, x, grad_y) ==
    IF y.graph # "ok"
    THEN [status |-> "raised", err |-> "RuntimeError"]
    ELSE LET bs == Len(x)
             rows == Len(y.val)
             o == Len(y.val[1])
             term(r, j) == RSumSeq([c \in 1..o |-> RMul(grad_y[r][c], y.jac[r][c][j])])
         IN [status |-> "ok",
             val |-> [b \in 1..bs |-> [j \in 1..Len(x[1]) |->
                        RSumSeq([k \in 1..(rows \div bs) |-> term((k - 1) * bs + b, j)])]]]

----------------------------------------------------------------------------
(* register_custom_grad_fn *)

\* slip: the surrogate's output is returned in place of the base solver's
forward_returns_surrogate(x, d) ==
    [ctx |-> [alive |-> TRUE, d |-> d, saved |-> <<x, d.v>>],
     out |-> detach(d.y_hat)]

\* forward(ctx, x, d): ctx.d = d; ctx.save_for_backward(x, d["v"]); return d["y"].detach()
forward(x, d) ==
    [ctx |-> [alive |-> TRUE, d |-> d, saved |-> <<x, d.v>>],
     out |-> detach(d.y)]

\* slip: v *= d["v_scale"] scales the saved tensor, which d["v"] aliases, in place
scale_probe_in_place(c) ==
    LET nv == TScale(c.saved[2], c.d.v_scale)
    IN [v |-> nv, ctx |-> [c EXCEPT !.saved[2] = nv, !.d.v = nv]]

\* v = v * d["v_scale"]: a new local tensor, the saved one is left alone
scale_probe(c) ==
    [v |-> TScale(c.saved[2], c.d.v_scale), ctx |-> c]

\* slip: the replicas grouped batch-major, .reshape(bs, Nv, in_dim).mean(dim=1)
forward_gradient_batch_major(grad_y, dvf, v, Nv, bs, in_dim) ==
    LET t3 == Reshape3(BroadcastMul(SumDim1(TMul(grad_y, dvf)), v), bs, Nv, in_dim)
    IN [b \in 1..bs |-> [j \in 1..in_dim |->
            RDivInt(RSumSeq([k \in 1..Nv |-> t3[b][k][j]]), Nv)]]

\* torch.sum(grad_y * dvf, dim=1, keepdim=True) * v, then
\* .reshape(Nv, bs, in_dim).mean(dim=0)
forward_gradient(grad_y, dvf, v, Nv, bs, in_dim) ==
    MeanDim0(Reshape3(BroadcastMul(SumDim1(TMul(grad_y, dvf)), v), Nv, bs, in_dim))

\* slip: the exact gradient computed without the try/except around it
f_true_branch_unguarded(c, x, grad_y) ==
    autograd_grad(c.d.y, x, grad_y)

\* the f_true branch: try grad(...) except: zeros_like(x)
f_true_branch(c, x, grad_y) ==
    LET g == autograd_grad(c.d.y, x, grad_y)
    IN IF g.status = "ok"
       THEN [status |-> "ok", val |-> g.val]
       ELSE [status |-> "ok", val |-> zeros_like(x)]

\* grad(d["y_hat"], x, grad_outputs=grad_y, retain_graph=True)[0] / d["Nv"]
f_hat_true_term(c, x, grad_y) ==
    LET g == autograd_grad(c.d.y_hat, x, grad_y)
    IN IF g.status = "ok"
       THEN [status |-> "ok", val |-> TDivInt(g.val, c.d.Nv)]
       ELSE g

\* slip: the parentheses dropped, f_fwd - f_hat_fwd - f_hat_true
control_variate_sign_slip(f_fwd, f_hat_fwd, f_hat_true) ==
    TSub(TSub(f_fwd, f_hat_fwd), f_hat_true)

\* cv_fwd = f_fwd - (f_hat_fwd - f_hat_true)
control_variate(f_fwd, f_hat_fwd, f_hat_true) ==
    TSub(f_fwd, TSub(f_hat_fwd, f_hat_true))

backward(c0, grad_y) ==
    LET x == c0.saved[1]
        sp == scale_probe(c0)
        c == sp.ctx
        v == sp.v
        d == c.d
        bs == Shape(x)[1]
        in_dim == Shape(x)[2]
        f_true == f_true_branch(c, x, grad_y)
        f_fwd == forward_gradient(grad_y, d.dvf, v, d.Nv, bs, in_dim)
        f_hat_fwd == forward_gradient(grad_y, d.dvf_hat, v, d.Nv, bs, in_dim)
        f_hat_true == f_hat_true_term(c, x, grad_y)
    IN IF d.grad_type = "f_true"
       THEN IF f_true.status = "ok"
            THEN Returned(f_true.val, grad_y, v, c)
            ELSE Raised(f_true.err, grad_y, v, c)
       ELSE IF d.grad_type = "f_fwd"
       THEN Returned(f_fwd, grad_y, v, c)
       ELSE IF f_hat_true.status # "ok"
       THEN Raised(f_hat_true.err, grad_y, v, c)
       ELSE IF d.grad_type = "f_hat_true"
       THEN Returned(f_hat_true.val, grad_y, v, c)
       ELSE IF d.grad_type = "cv_fwd"
       THEN Returned(control_variate(f_fwd, f_hat_fwd, f_hat_true.val), grad_y, v, c)
       ELSE Raised("NotImplementedError", grad_y, v, c)

----------------------------------------------------------------------------
(* The training loops *)

Scripts == {"minimize", "poisson1d"}

Configs ==
    [grad_type : GradTypes \cup {UnknownGradType}, Nv : 1..MaxNv, v_scale : VScales]

\* WrappedSolver.forward: the estimator context it packages for theta of
\* shape [batch, dim]: every per-replica tensor has Nv * batch rows.
EstimatorContext(c, batch, dim, o, seed, g, g_hat) ==
    [y |-> SolverOutput(seed, g, c.Nv * batch, o, dim),
     dvf |-> SampleTensor(seed + 1, c.Nv * batch, o),
     y_hat |-> SolverOutput(seed + 2, g_hat, c.Nv * batch, o, dim),
     dvf_hat |-> SampleTensor(2 * seed + 3, c.Nv * batch, o),
     v |-> SampleTensor(seed + 5, c.Nv * batch, dim),
     v_scale |-> c.v_scale,
     Nv |-> c.Nv,
     grad_type |-> c.grad_type]

NoOut == [val |-> <<>>, graph |-> "none"]

GradInit ==
    /\ pc = "idle"
    /\ script \in Scripts
    /\ cfg \in Configs
    /\ iter = 0
    /\ ctx = NoCtx
    /\ out = NoOut
    /\ bw = NoBw
    /\ nBackward = 0
    /\ jv = NoJvp

NoTask == [none |-> TRUE]

TaskIdle ==
    /\ tpc = "idle"
    /\ ptask = NoTask
    /\ ttask = NoTask
    /\ rtask = NoTask
    /\ eq = NoEq

\* y, ... = wrapped_solver(tau, theta): a fresh context replaces the last one
WrappedForward ==
    /\ pc = "idle"
    /\ iter < MaxIter
    /\ \E batch \in 1..MaxBatch, dim \in 1..MaxDim, o \in 1..MaxOut,
          seed \in 0..MaxSeed, g \in {"ok", "none"}, g_hat \in {"ok", "none"} :
          \E f \in {forward(SampleTensor(seed + 7, batch, dim),
                             EstimatorContext(cfg, batch, dim, o, seed, g, g_hat))} :
             /\ ctx' = f.ctx
             /\ out' = f.out
    /\ bw' = NoBw
    /\ nBackward' = 0
    /\ iter' = iter + 1
    /\ pc' = "forwarded"
    /\ UNCHANGED <<script, cfg>>
    /\ UNCHANGED taskVars
    /\ UNCHANGED jvpVars

\* one backward pass of autograd through the node, with upstream gradient gy
RunBackward(gy, next) ==
    \E r \in {backward(ctx, gy)} :
       /\ bw' = [k \in DOMAIN r \ {"ctx"} |-> r[k]]
       /\ ctx' = r.ctx
       /\ nBackward' = nBackward + 1
       /\ pc' = IF r.status = "raised" THEN "aborted" ELSE next

\* minimize_testfunctions: m_loss = y.sum(); m_loss.backward(retain_graph=True, ...)
MinimizeBackward ==
    /\ script = "minimize"
    /\ pc = "forwarded"
    /\ RunBackward(ones(Len(out.val), Len(out.val[1])), "m_done")
    /\ UNCHANGED <<script, cfg, iter, out>>
    /\ UNCHANGED taskVars
    /\ UNCHANGED jvpVars

\* minimize_testfunctions: the surrogate's loss is built from y.clone().detach(),
\* y_hat and dvf_hat, so its backward does not pass through the node
SurrogateBackward ==
    /\ script = "minimize"
    /\ pc = "m_done"
    /\ pc' = "s_done"
    /\ UNCHANGED <<script, cfg, iter, ctx, out, bw, nBackward>>
    /\ UNCHANGED taskVars
    /\ UNCHANGED jvpVars

\* minimize_testfunctions: f_true = grad(y.sum(), theta, retain_graph=True)[0],
\* a second backward pass through the node of the same forward call
LoggingGrad ==
    /\ script = "minimize"
    /\ pc = "s_done"
    /\ RunBackward(ones(Len(out.val), Len(out.val[1])), "logged")
    /\ UNCHANGED <<script, cfg, iter, out>>
    /\ UNCHANGED taskVars
    /\ UNCHANGED jvpVars

\* minimize_testfunctions: the estimators recomputed for logging read a name v
\* that main never binds, so every grad_type but f_true stops the loop here
LoggingEstimators ==
    /\ script = "minimize"
    /\ pc = "logged"
    /\ pc' = IF cfg.grad_type # "f_true" THEN "aborted" ELSE "updated"
    /\ UNCHANGED <<script, cfg, iter, ctx, out, bw, nBackward>>
    /\ UNCHANGED taskVars
    /\ UNCHANGED jvpVars

\* poisson1d: self.manual_backward(loss, create_graph=True, ...), the loss being
\* any function of y
ManualBackward ==
    /\ script = "poisson1d"
    /\ pc = "forwarded"
    /\ \E s \in 0..MaxSeed :
          RunBackward(SampleTensor(s + 4, Len(out.val), Len(out.val[1])), "updated")
    /\ UNCHANGED <<script, cfg, iter, out>>
    /\ UNCHANGED taskVars
    /\ UNCHANGED jvpVars

\* m_opt.step() / opt.step(): the step ends, the next one may start.  In
\* poisson1d training_step returns, so y, its graph and the context go out of
\* scope; in minimize_testfunctions they stay bound until the next forward.
OptimizerStep ==
    /\ pc = "updated"
    /\ pc' = "idle"
    /\ IF script = "poisson1d"
       THEN /\ ctx' = NoCtx
            /\ out' = NoOut
            /\ bw' = NoBw
            /\ nBackward' = 0
       ELSE UNCHANGED <<ctx, out, bw, nBackward>>
    /\ UNCHANGED <<script, cfg, iter>>
    /\ UNCHANGED taskVars
    /\ UNCHANGED jvpVars

TrainInit == GradInit /\ TaskIdle

TrainNext ==
    \/ WrappedForward
    \/ MinimizeBackward
    \/ SurrogateBackward
    \/ LoggingGrad
    \/ LoggingEstimators
    \/ ManualBackward
    \/ OptimizerStep

SpecTrain == TrainInit /\ [][TrainNext]_vars

----------------------------------------------------------------------------
(* The node on its own: one forward call, one backward pass *)

Init ==
    /\ pc = "idle"
    /\ script = "node"
    /\ cfg \in Configs
    /\ iter = 0
    /\ ctx = NoCtx
    /\ out = NoOut
    /\ bw = NoBw
    /\ nBackward = 0
    /\ jv = NoJvp
    /\ TaskIdle

\* register_custom_grad_fn.apply(x, d)
ApplyNode ==
    /\ script = "node"
    /\ pc = "idle"
    /\ \E batch \in 1..MaxBatch, dim \in 1..MaxDim, o \in 1..MaxOut,
          seed \in 0..MaxSeed, g \in {"ok", "none"}, g_hat \in {"ok", "none"} :
          \E f \in {forward(SampleTensor(seed + 7, batch, dim),
                             EstimatorContext(cfg, batch, dim, o, seed, g, g_hat))} :
             /\ ctx' = f.ctx
             /\ out' = f.out
    /\ pc' = "forwarded"
    /\ UNCHANGED <<script, cfg, iter, bw, nBackward>>
    /\ UNCHANGED taskVars
    /\ UNCHANGED jvpVars

\* autograd calls backward(ctx, grad_y) with the gradient of some loss
BackwardPass ==
    /\ script = "node"
    /\ pc = "forwarded"
    /\ \E s \in 0..MaxSeed :
          RunBackward(SampleTensor(s + 4, Len(out.val), Len(out.val[1])), "done")
    /\ UNCHANGED <<script, cfg, iter, out>>
    /\ UNCHANGED taskVars
    /\ UNCHANGED jvpVars

Next ==
    \/ ApplyNode
    \/ BackwardPass

Spec == Init /\ [][Next]_vars

----------------------------------------------------------------------------
(* Properties of the custom-gradient node *)

\* the vector-Jacobian product of a differentiable output, written out per entry
ExactGradient(y, gy, bs, b, j) ==
    RSumSeq([k \in 1..(Len(y.val) \div bs) |->
        RSumSeq([c \in 1..Len(y.val[1]) |->
            RMul(gy[(k - 1) * bs + b][c], y.jac[(k - 1) * bs + b][c][j])])])

\* (sum over columns of gy[r] * dvf[r]) * v_scale * v[r][j] for replicated row r
ProbeTerm(gy, dvf, c, r, j) ==
    RMul(RMul(RSumSeq([col \in 1..Len(dvf[r]) |-> RMul(gy[r][col], dvf[r][col])]),
              c.d.v_scale),
         c.d.v[r][j])

\* the mean over the Nv replicas k of the probe terms of sample b
ProbeMean(gy, dvf, c, bs, b, j) ==
    RDivInt(RSumSeq([k \in 1..c.d.Nv |-> ProbeTerm(gy, dvf, c, (k - 1) * bs + b, j)]),
            c.d.Nv)

HasShapeOf(g, x) ==
    /\ Len(g) = Len(x)
    /\ \A b \in 1..Len(g) : Len(g[b]) = Len(x[b])

BackwardReturned == ctx.alive /\ nBackward > 0 /\ bw.status = "returned"

\* C1: the value forward returns is the base solver's output d["y"], detached,
\* whatever grad_type, y_hat, dvf, dvf_hat, v, v_scale and Nv the context holds.
C1_ForwardReturnsBaseOutput ==
    ctx.alive =>
        /\ out.val = ctx.d.y.val
        /\ out.graph = "none"
        /\ \A gt \in GradTypes, s \in VScales, n \in 1..MaxNv :
              forward(ctx.saved[1],
                      [ctx.d EXCEPT !.grad_type = gt, !.v_scale = s, !.Nv = n,
                                    !.y_hat = ctx.d.y, !.dvf = ctx.d.dvf_hat,
                                    !.dvf_hat = ctx.d.dvf, !.v = ctx.d.dvf]).out = out

C1_Witness ==
    /\ pc = "forwarded"
    /\ ctx.alive
    /\ ctx.d.grad_type = "cv_fwd"
    /\ ctx.d.y.graph = "ok"
    /\ ctx.d.y.val # ctx.d.y_hat.val
    /\ out.val = ctx.d.y.val

\* C2: for the same context and upstream gradient, the gradient returned under
\* cv_fwd is (the one under f_fwd) - f_hat_fwd + (the one under f_hat_true),
\* f_hat_fwd being f_fwd computed with dvf_hat in place of dvf.
C2_ControlVariateIdentity ==
    (BackwardReturned /\ ctx.d.grad_type = "cv_fwd") =>
        LET B(gt, dvf) ==
                backward([ctx EXCEPT !.d.grad_type = gt, !.d.dvf = dvf], bw.grad_y)
            f_fwd == B("f_fwd", ctx.d.dvf)
            f_hat_fwd == B("f_fwd", ctx.d.dvf_hat)
            f_hat_true == B("f_hat_true", ctx.d.dvf)
        IN /\ f_fwd.status = "returned"
           /\ f_hat_fwd.status = "returned"
           /\ f_hat_true.status = "returned"
           /\ bw.grad = TAdd(TSub(f_fwd.grad, f_hat_fwd.grad), f_hat_true.grad)

C2_Witness ==
    /\ BackwardReturned
    /\ ctx.d.grad_type = "cv_fwd"
    /\ ctx.d.Nv = 2
    /\ ctx.d.dvf # ctx.d.dvf_hat
    /\ bw.grad # zeros_like(bw.grad)
    /\ bw.grad # backward([ctx EXCEPT !.d.grad_type = "f_fwd"], bw.grad_y).grad
    /\ bw.grad # backward([ctx EXCEPT !.d.grad_type = "f_hat_true"], bw.grad_y).grad

\* C3: under f_fwd, backward returns for each sample b the mean over the Nv
\* replicas k of (sum over columns of grad_y[r] * dvf[r]) * v_scale * v[r],
\* r = k * batch + b: replicas are grouped Nv-major and averaged over Nv.
C3_ForwardGradientMean ==
    (BackwardReturned /\ ctx.d.grad_type = "f_fwd") =>
        LET x == ctx.saved[1]
        IN /\ HasShapeOf(bw.grad, x)
           /\ \A b \in 1..Len(x), j \in 1..Len(x[1]) :
                 bw.grad[b][j] = ProbeMean(bw.grad_y, ctx.d.dvf, ctx, Len(x), b, j)

C3_Witness ==
    /\ BackwardReturned
    /\ ctx.d.grad_type = "f_fwd"
    /\ ctx.d.Nv = 2
    /\ Len(ctx.saved[1]) = 2
    /\ Len(ctx.d.dvf[1]) = 2
    /\ ctx.d.v_scale = RInt(3)
    /\ bw.grad[1] # bw.grad[2]
    /\ \E b \in 1..2, j \in 1..Len(bw.grad[1]) : bw.grad[b][j][2] = 2

\* C4: under f_true, a failing exact-gradient computation is not propagated:
\* backward returns zeros of x's shape; when it succeeds backward returns the
\* exact gradient.
C4_FTrueBestEffort ==
    (ctx.alive /\ nBackward > 0 /\ ctx.d.grad_type = "f_true") =>
        LET x == ctx.saved[1]
        IN /\ bw.status = "returned"
           /\ HasShapeOf(bw.grad, x)
           /\ \A b \in 1..Len(x), j \in 1..Len(x[1]) :
                 bw.grad[b][j] = IF ctx.d.y.graph = "ok"
                                 THEN ExactGradient(ctx.d.y, bw.grad_y, Len(x), b, j)
                                 ELSE RInt(0)

C4_Witness ==
    /\ BackwardReturned
    /\ ctx.d.grad_type = "f_true"
    /\ ctx.d.y.graph = "none"
    /\ Len(ctx.saved[1]) = 2
    /\ bw.grad = zeros_like(ctx.saved[1])

\* C5: under f_hat_true or cv_fwd, a failing exact gradient of y_hat is replaced
\* by zeros: f_hat_true returns zeros, cv_fwd returns f_fwd - f_hat_fwd.
C5_SurrogateGradientRecovered ==
    (ctx.alive /\ nBackward > 0 /\ ctx.d.grad_type \in {"f_hat_true", "cv_fwd"}
        /\ ctx.d.y_hat.graph # "ok") =>
        LET x == ctx.saved[1]
            d == ctx.d
        IN /\ bw.status = "returned"
           /\ \A b \in 1..Len(x), j \in 1..Len(x[1]) :
                 bw.grad[b][j] =
                    IF d.grad_type = "f_hat_true"
                    THEN RInt(0)
                    ELSE RSub(ProbeMean(bw.grad_y, d.dvf, ctx, Len(x), b, j),
                              ProbeMean(bw.grad_y, d.dvf_hat, ctx, Len(x), b, j))

\* C6: for a grad_type outside the four, every backward call ends in the
\* not-implemented error: no gradient, no fallback, no other error kind.
C6_UnknownGradTypeNotImplemented ==
    (ctx.alive /\ nBackward > 0 /\ ctx.d.grad_type \notin GradTypes) =>
        /\ bw.status = "raised"
        /\ bw.err = "NotImplementedError"

\* C7: each context created by a forward call is read by exactly one backward
\* call; no second backward call ever reads the same context.
C7_ContextConsumedOnce ==
    /\ nBackward <= 1
    /\ (pc \in {"m_done", "s_done", "logged", "updated"} => nBackward = 1)

\* C8: the probe direction backward uses is the v the matching forward stored,
\* times v_scale, and backward leaves the stored v and every other context
\* entry unchanged.
C8_ProbeDirectionFixed ==
    [][/\ (nBackward' = nBackward + 1) =>
            /\ ctx' = ctx
            /\ ctx.saved[2] = ctx.d.v
            /\ bw'.v = TScale(ctx.d.v, ctx.d.v_scale)
       /\ (ctx.alive /\ iter' = iter /\ ctx'.alive) => ctx' = ctx]_vars

C8_Witness ==
    /\ BackwardReturned
    /\ ctx.d.grad_type = "f_fwd"
    /\ ctx.d.v_scale = RInt(3)
    /\ bw.v = TScale(ctx.saved[2], RInt(3))
    /\ bw.v # ctx.saved[2]
    /\ ctx.saved[2] = ctx.d.v

\* C9: for every Nv >= 1 and each of the four grad_type values the returned
\* gradient has the shape [batch, dim] of the non-replicated input, and for
\* Nv = 1 each estimator is its single-sample form, with no extra factor.
C9_ShapeAndSingleSample ==
    (BackwardReturned /\ ctx.d.grad_type \in GradTypes) =>
        LET x == ctx.saved[1]
            d == ctx.d
            gy == bw.grad_y
            fwd(dvf, b, j) == ProbeTerm(gy, dvf, ctx, b, j)
            single(b, j) ==
                CASE d.grad_type = "f_true" ->
                        IF d.y.graph = "ok" THEN ExactGradient(d.y, gy, Len(x), b, j)
                                            ELSE RInt(0)
                  [] d.grad_type = "f_fwd" -> fwd(d.dvf, b, j)
                  [] d.grad_type = "f_hat_true" -> ExactGradient(d.y_hat, gy, Len(x), b, j)
                  [] d.grad_type = "cv_fwd" ->
                        RAdd(RSub(fwd(d.dvf, b, j), fwd(d.dvf_hat, b, j)),
                             ExactGradient(d.y_hat, gy, Len(x), b, j))
        IN /\ HasShapeOf(bw.grad, x)
           /\ d.Nv = 1 =>
                \A b \in 1..Len(x), j \in 1..Len(x[1]) : bw.grad[b][j] = single(b, j)

C9_Witness ==
    /\ BackwardReturned
    /\ ctx.d.grad_type = "f_hat_true"
    /\ ctx.d.Nv = 2
    /\ Len(ctx.saved[1]) = 2
    /\ Len(ctx.saved[1][1]) = 2
    /\ Len(ctx.d.v) = 4
    /\ Shape(bw.grad) = <<2, 2>>
    /\ bw.grad # zeros_like(bw.grad)

----------------------------------------------------------------------------
(* Task format conversion (modules/tasks.py)                                *)
(*                                                                          *)
(* Matrix and vector entries are integers.  A PETSc AIJ matrix is its size  *)
(* and its CSR arrays: the 0-based row offsets I, the 0-based column        *)
(* indices J and the stored values V; a stored value may be zero.  rtol is  *)
(* a float: a Python float (double) is any integer of a fine grid, and the  *)
(* values a float32 tensor can hold are the multiples of 4 of that grid.    *)

RECURSIVE Concat(_)
Concat(ss) == IF ss = <<>> THEN <<>> ELSE Head(ss) \o Concat(Tail(ss))

RECURSIVE SumLen(_, _)
SumLen(ss, k) == IF k = 0 THEN 0 ELSE Len(ss[k]) + SumLen(ss, k - 1)

Upto(n) == [k \in 1..n |-> k]

\* the CSR arrays of a matrix given, per row, its stored columns (1-based,
\* ascending) and their values
CSR(n, cols, vals) ==
    [size |-> <<n, n>>,
     I |-> [k \in 1..(n + 1) |-> SumLen(cols, k - 1)],
     J |-> Concat([i \in 1..n |-> [k \in 1..Len(cols[i]) |-> cols[i][k] - 1]]),
     V |-> Concat(vals)]

\* sparse_csr_tensor(row_idx, col_idx, values, size).to_dense()
to_dense(A) ==
    [i \in 1..A.size[1] |-> [j \in 1..A.size[2] |->
        LET ks == {k \in (A.I[i] + 1)..A.I[i + 1] : A.J[k] = j - 1}
        IN IF ks = {} THEN 0 ELSE A.V[CHOOSE k \in ks : TRUE]]]

\* A.to_sparse_csr(), then createAIJ / setValuesCSR / assemble: only the
\* nonzero entries of the dense matrix are stored
to_sparse_csr(D) ==
    LET n == Len(D)
        cols == [i \in 1..n |-> SelectSeq(Upto(n), LAMBDA j : D[i][j] # 0)]
    IN CSR(n, cols, [i \in 1..n |-> [k \in 1..Len(cols[i]) |-> D[i][cols[i][k]]]])

\* tensor(task.rtol): a Python float becomes a tensor of the default dtype, float32
to_float32(r) == (r \div 4) * 4

\* np.isclose(a, b): |a - b| <= atol + rtol * |b|, atol one float32 step wide
isclose(a, b) == Abs(a - b) <= 4 + (Abs(b) \div 100000)

NoVec == [present |-> FALSE, arr |-> <<>>]

SomeVec(a) == [present |-> TRUE, arr |-> a]

petsc2torch(task) ==
    [kind |-> "torch",
     params |-> task.params,
     A |-> to_dense(task.A),
     b |-> task.b,
     x |-> IF task.x.present THEN SomeVec(task.x.arr) ELSE NoVec,
     rtol |-> to_float32(task.rtol),
     maxiter |-> task.maxiter]

torch2petsc(task) ==
    [kind |-> "petsc",
     params |-> "None",
     A |-> to_sparse_csr(task.A),
     b |-> task.b,
     x |-> IF task.x.present THEN SomeVec(task.x.arr) ELSE NoVec,
     rtol |-> task.rtol,
     maxiter |-> task.maxiter,
     problem |-> "None"]

\* a == b and c == d and ... in Python: the first operand that is false or
\* raises decides
RECURSIVE AndChain(_)
AndChain(rs) ==
    IF rs = <<>> THEN "True"
    ELSE IF Head(rs) = "True" THEN AndChain(Tail(rs))
    ELSE Head(rs)

PyBool(p) == IF p THEN "True" ELSE "False"

\* (self.x is None and other.x is None) or equal(self.x, other.x): the call
\* raises when either side is None
x_equal(sx, ox) ==
    IF ~sx.present /\ ~ox.present THEN "True"
    ELSE IF ~sx.present \/ ~ox.present THEN "raise"
    ELSE PyBool(sx.arr = ox.arr)

\* PyTorchLinearSystemTask.__eq__
torch_eq(self, other) ==
    AndChain(<<PyBool(self.A = other.A),
               PyBool(self.b = other.b),
               x_equal(self.x, other.x),
               PyBool(self.rtol = other.rtol),
               PyBool(self.maxiter = other.maxiter)>>)

\* Mat.equal on AIJ matrices: the sizes, the nonzero structure and the stored
\* values are compared
mat_equal(A, B) == A.size = B.size /\ A.I = B.I /\ A.J = B.J /\ A.V = B.V

\* PETScLinearSystemTask.__eq__
petsc_eq(self, other) ==
    AndChain(<<PyBool(mat_equal(self.A, other.A)),
               PyBool(self.b = other.b),
               x_equal(self.x, other.x),
               PyBool(isclose(self.rtol, other.rtol)),
               PyBool(self.maxiter = other.maxiter)>>)

\* the task inputs the model draws
Patterns == {"diag", "upper", "full"}

Stored(pat, i, j) ==
    CASE pat = "diag" -> i = j
      [] pat = "upper" -> j = i \/ j = i + 1
      [] pat = "full" -> TRUE

Entry(seed, i, j) == ((seed + 1) * i + seed * j) % 3

SampleVec(seed, n) == [i \in 1..n |-> ((seed + 2) * i) % 4]

SampleMat(n, pat, seed) ==
    LET cols == [i \in 1..n |-> SelectSeq(Upto(n), LAMBDA j : Stored(pat, i, j))]
    IN CSR(n, cols, [i \in 1..n |-> [k \in 1..Len(cols[i]) |-> Entry(seed, i, cols[i][k])]])

OptVec(xp, seed, n) == IF xp THEN SomeVec(SampleVec(seed + 1, n)) ELSE NoVec

Rtols == {400, 401, 1000}

Maxiters == {100, 200}

SparseTasks ==
    {[kind |-> "petsc", params |-> "None", A |-> SampleMat(n, pat, seed),
      b |-> SampleVec(seed, n), x |-> OptVec(xp, seed, n), rtol |-> rtol, maxiter |-> maxiter,
      problem |-> "None"] :
        n \in 1..MaxN, pat \in Patterns, seed \in 0..MaxSeed,
        xp \in BOOLEAN,
        rtol \in Rtols, maxiter \in Maxiters}

DenseTasks ==
    {[kind |-> "torch", params |-> "None", A |-> to_dense(SampleMat(n, pat, seed)),
      b |-> SampleVec(seed, n), x |-> OptVec(xp, seed, n),
      rtol |-> to_float32(rtol), maxiter |-> maxiter] :
        n \in 1..MaxN, pat \in Patterns, seed \in 0..MaxSeed,
        xp \in BOOLEAN,
        rtol \in Rtols, maxiter \in Maxiters}

GradIdle ==
    /\ pc = "idle"
    /\ script = "none"
    /\ cfg = [grad_type |-> "f_true", Nv |-> 1, v_scale |-> RInt(1)]
    /\ iter = 0
    /\ ctx = NoCtx
    /\ out = NoOut
    /\ bw = NoBw
    /\ nBackward = 0
    /\ jv = NoJvp

TaskInit ==
    /\ GradIdle
    /\ rtask = NoTask
    /\ eq = NoEq
    /\ \/ /\ tpc = "sparse"
          /\ ptask \in SparseTasks
          /\ ttask = NoTask
       \/ /\ tpc = "dense"
          /\ ttask \in DenseTasks
          /\ ptask = NoTask

\* petsc2torch(task): the first leg of a sparse round trip, the second of a dense one
Petsc2Torch ==
    /\ \/ /\ tpc = "sparse"
          /\ ttask' = petsc2torch(ptask)
          /\ tpc' = "sparse_mid"
          /\ UNCHANGED <<ptask, rtask>>
       \/ /\ tpc = "dense_mid"
          /\ rtask' = petsc2torch(ptask)
          /\ tpc' = "dense_done"
          /\ UNCHANGED <<ptask, ttask>>
    /\ UNCHANGED gradVars
    /\ UNCHANGED <<eq, jv>>

\* torch2petsc(task): the first leg of a dense round trip, the second of a sparse one
Torch2Petsc ==
    /\ \/ /\ tpc = "dense"
          /\ ptask' = torch2petsc(ttask)
          /\ tpc' = "dense_mid"
          /\ UNCHANGED <<ttask, rtask>>
       \/ /\ tpc = "sparse_mid"
          /\ rtask' = torch2petsc(ttask)
          /\ tpc' = "sparse_done"
          /\ UNCHANGED <<ptask, ttask>>
    /\ UNCHANGED gradVars
    /\ UNCHANGED <<eq, jv>>

TaskNext ==
    \/ Petsc2Torch
    \/ Torch2Petsc

SpecTask == TaskInit /\ [][TaskNext]_vars

----------------------------------------------------------------------------
(* Task equality: self == other on two tasks of the same representation *)

SameMatrixAndRhs(self, other) == self.A = other.A /\ self.b = other.b

EqInit ==
    /\ GradIdle
    /\ eq = NoEq
    /\ \/ /\ tpc = "eq_sparse"
          /\ ptask \in SparseTasks
          /\ rtask \in {t \in SparseTasks : SameMatrixAndRhs(ptask, t)}
          /\ ttask = NoTask
       \/ /\ tpc = "eq_dense"
          /\ ttask \in DenseTasks
          /\ rtask \in {t \in DenseTasks : SameMatrixAndRhs(ttask, t)}
          /\ ptask = NoTask

\* PETScLinearSystemTask.__eq__(self, other); a raised exception ends the comparison
PetscEq ==
    /\ tpc = "eq_sparse"
    /\ eq' = petsc_eq(ptask, rtask)
    /\ tpc' = "eq_sparse_done"
    /\ UNCHANGED <<ptask, ttask, rtask, jv>>
    /\ UNCHANGED gradVars

\* PyTorchLinearSystemTask.__eq__(self, other); a raised exception ends the comparison
TorchEq ==
    /\ tpc = "eq_dense"
    /\ eq' = torch_eq(ttask, rtask)
    /\ tpc' = "eq_dense_done"
    /\ UNCHANGED <<ptask, ttask, rtask, jv>>
    /\ UNCHANGED gradVars

EqNext ==
    \/ PetscEq
    \/ TorchEq

SpecEq == EqInit /\ [][EqNext]_vars

\* the operands of the finished comparison
EqSelf == IF tpc = "eq_sparse_done" THEN ptask ELSE ttask

EqDone == tpc \in {"eq_sparse_done", "eq_dense_done"}

\* every field but the ground truth x is equal under the task equality
OtherFieldsEqual ==
    /\ SameMatrixAndRhs(EqSelf, rtask)
    /\ EqSelf.maxiter = rtask.maxiter
    /\ IF tpc = "eq_sparse_done"
       THEN isclose(EqSelf.rtol, rtask.rtol)
       ELSE EqSelf.rtol = rtask.rtol

\* C11: on two tasks whose other fields are equal, both __eq__ return true when
\* the ground truth x is absent on both sides, and return false without raising
\* when x is present on exactly one side, whichever side that is.
C11_EqualityOnAbsentGroundTruth ==
    (EqDone /\ OtherFieldsEqual) =>
        /\ (~EqSelf.x.present /\ ~rtask.x.present) => eq = "True"
        /\ (EqSelf.x.present # rtask.x.present) => eq = "False"

----------------------------------------------------------------------------
(* The directional-derivative primitive jvp (modules/wrapper.py) and the     *)
(* sphere test function (train/minimize_testfunctions.py)                    *)

RInv(a) == IF a[1] < 0 THEN <<-a[2], -a[1]>> ELSE <<a[2], a[1]>>

\* t / s for a scalar s # 0
TDiv(a, s) == TScale(a, RInv(s))

JvpTypes == {"forwardAD", "forwardFD", "centralFD"}

\* one configured value outside the three supported ones
UnknownJvpType == "backwardFD"

Epsilons == {<<1, 2>>, <<1, 10>>}

\* fwAD.make_dual(x, v)
make_dual(x, v) == [primal |-> x, tangent |-> v]

\* sphere(tensor): torch.sum(tensor**2, dim=-1, keepdim=True)
sphere(tensor) == SumDim1(TMul(tensor, tensor))

\* sphere on a dual tensor: tensor**2 carries the tangent 2 * primal * tangent,
\* the sum adds primals and tangents alike
sphere_dual(dual) ==
    [primal |-> SumDim1(TMul(dual.primal, dual.primal)),
     tangent |-> SumDim1(TScale(TMul(dual.primal, dual.tangent), RInt(2)))]

\* f(x) for the test function named f
Eval(f, x) == CASE f = "sphere" -> sphere(x)

EvalDual(f, dual) == CASE f = "sphere" -> sphere_dual(dual)

JvpReturned(y, dvf) == [status |-> "returned", err |-> "none", y |-> y, dvf |-> dvf]

JvpRaised(e) == [status |-> "raised", err |-> e]

\* slip: dvf, y = fwAD.unpack_dual(dual_output)
jvp_unpack_swapped(f, x, v, jvp_type, eps) ==
    IF jvp_type = "forwardAD"
    THEN LET dual_output == EvalDual(f, make_dual(x, v))
         IN JvpReturned(dual_output.tangent, dual_output.primal)
    ELSE JvpRaised("NotImplementedError")

jvp(f, x, v, jvp_type, eps) ==
    IF jvp_type = "forwardAD"
    THEN LET dual_output == EvalDual(f, make_dual(x, v))
         IN JvpReturned(dual_output.primal, dual_output.tangent)
    ELSE IF jvp_type = "forwardFD"
    THEN LET y == Eval(f, x)
             y_plus == Eval(f, TAdd(x, TScale(v, eps)))
         IN JvpReturned(y, TDiv(TSub(y_plus, y), eps))
    ELSE IF jvp_type = "centralFD"
    THEN LET y == Eval(f, x)
             y_plus == Eval(f, TAdd(x, TScale(v, eps)))
             y_minus == Eval(f, TSub(x, TScale(v, eps)))
         IN JvpReturned(y, TDiv(TSub(y_plus, y_minus), RMul(RInt(2), eps)))
    ELSE JvpRaised("NotImplementedError")

\* theta = [[3.0, 4.0]], v = [[1.0, 0.0]]
ScenarioX == <<<<RInt(3), RInt(4)>>>>

ScenarioV == <<<<RInt(1), RInt(0)>>>>

\* the points and directions the model draws
JvpPoints ==
    {<<SampleTensor(sx, batch, dim), SampleTensor(sv + 3, batch, dim)>> :
        sx \in 0..MaxSeed, sv \in 0..MaxSeed, batch \in 1..MaxBatch, dim \in 1..MaxDim}
    \cup {<<ScenarioX, ScenarioV>>}

JvpInit ==
    /\ GradIdle
    /\ TaskIdle

\* y, dvf = jvp(f, x, v, jvp_type, eps)
CallJvp ==
    /\ jv.status = "none"
    /\ \E p \in JvpPoints, t \in JvpTypes \cup {UnknownJvpType}, eps \in Epsilons :
          \E r \in {jvp("sphere", p[1], p[2], t, eps)} :
             jv' = [k \in DOMAIN r \cup {"f", "x", "v", "jvp_type", "eps"} |->
                        CASE k = "f" -> "sphere"
                          [] k = "x" -> p[1]
                          [] k = "v" -> p[2]
                          [] k = "jvp_type" -> t
                          [] k = "eps" -> eps
                          [] OTHER -> r[k]]
    /\ UNCHANGED gradVars
    /\ UNCHANGED taskVars

JvpNext ==
    \/ CallJvp

SpecJvp == JvpInit /\ [][JvpNext]_vars

\* C12: for the sphere function, jvp with jvp_type = "forwardAD" returns
\* y = sum of x_i^2 and dvf = 2 * (x . v) for every point x and direction v;
\* x = [[3, 4]], v = [[1, 0]] gives y = 25 and dvf = 6.
C12_SphereForwardAD ==
    (jv.status # "none" /\ jv.f = "sphere" /\ jv.jvp_type = "forwardAD") =>
        /\ jv.status = "returned"
        /\ Len(jv.y) = Len(jv.x)
        /\ Len(jv.dvf) = Len(jv.x)
        /\ \A b \in 1..Len(jv.x) :
              /\ jv.y[b] = <<RSumSeq([j \in 1..Len(jv.x[b]) |->
                                RMul(jv.x[b][j], jv.x[b][j])])>>
              /\ jv.dvf[b] = <<RMul(RInt(2),
                                RSumSeq([j \in 1..Len(jv.x[b]) |->
                                    RMul(jv.x[b][j], jv.v[b][j])]))>>
        /\ (jv.x = ScenarioX /\ jv.v = ScenarioV) =>
              /\ jv.y = <<<<RInt(25)>>>>
              /\ jv.dvf = <<<<RInt(6)>>>>

C12_Witness ==
    /\ jv.status = "returned"
    /\ jv.f = "sphere"
    /\ jv.jvp_type = "forwardAD"
    /\ jv.x = ScenarioX
    /\ jv.v = ScenarioV
    /\ jv.y = <<<<RInt(25)>>>>
    /\ jv.dvf = <<<<RInt(6)>>>>

=============================================================================
